---- MODULE Spec2Model ----
(***************************************************************************)
(* The take! macro of the `taken` crate (src/src/lib.rs).                  *)
(*                                                                         *)
(* take! is a macro_rules! macro: a list of 25 rules tried in order on the *)
(* token sequence of the invocation.  The rule that matches first emits    *)
(* one shadowing `let` declaration and, for the rules "with rest", calls   *)
(* take! again on the tokens after the comma.  The model has two parts:    *)
(*   - expansion: one action per rule, plus the "no rule matches" failure; *)
(*   - the scope the expansion is pasted into: the emitted declarations    *)
(*     are executed one by one on the variables of the enclosing scope,    *)
(*     the body then writes through the new bindings, and the scope ends   *)
(*     (the block or closure body of the tests and of the doc examples).   *)
(***************************************************************************)
EXTENDS Naturals, Sequences, FiniteSets, TLC

(***************************************************************************)
(* Tokens.  Names are the identifiers a caller may bind; "mut" and "as"    *)
(* are the two keywords the rules mention; "*" stands for any sigil the    *)
(* rules do not mention.                                                   *)
(***************************************************************************)
Names == {"x", "y"}
Keywords == {"mut", "as"}
Puncts == {",", "&", "=", "*"}
Tokens == Names \cup Keywords \cup Puncts

\* Every token sequence up to MaxTokens tokens is tried as an invocation.
MaxTokens == 4
\* Every well-formed list up to MaxListTokens tokens is tried as well.
MaxListTokens == 7
\* The body of the scope writes at most MaxWrites times.
MaxWrites == 2

VARIABLES
    input,    \* the tokens of the outermost invocation take!(...)
    toks,     \* the tokens of the invocation being expanded
    out,      \* the declarations emitted so far, in order
    status,   \* "expanding", "expanded", "no_rule", "syntax_error", "rejected", "ended"
    calls,    \* number of invocations of take! so far
    binds,    \* the bindings of the scope: the outer variables, then one per declaration run
    env,      \* the binding each name resolves to
    ip,       \* number of emitted declarations already run
    nwrites,  \* number of writes the body has made
    lastw     \* the last write of the body: binding written through, value

vars == <<input, toks, out, status, calls, binds, env, ip, nwrites, lastw>>

(***************************************************************************)
(* The rules.  A pattern is a sequence of literal tokens and of the        *)
(* fragments $var:ident and $v:ident; rest says whether `$($rest:tt)*`     *)
(* follows the pattern.  The transcriber is `let [mut] <dst> = <init>;`    *)
(* where init is `$var` (move), `&$var` (ref), `&mut $var` (refmut) or     *)
(* `$var.clone()` (clone), followed by `take![$($rest)*]` when rest.       *)
(***************************************************************************)
Fragments == {"$var", "$v"}

Rule(p, rs, m, d, i) ==
    [pat |-> p, rest |-> rs, emits |-> TRUE, mutable |-> m, dst |-> d, init |-> i]

Rest_move        == Rule(<<"$var", ",">>, TRUE, FALSE, "$var", "move")
Rest_move_as     == Rule(<<"$var", "as", "$v", ",">>, TRUE, FALSE, "$v", "move")
\* A slip: the first rule's `let $var = $var;` kept under `mut $var`.
Rest_mut_slip    == Rule(<<"mut", "$var", ",">>, TRUE, FALSE, "$var", "move")
Rest_mut         == Rule(<<"mut", "$var", ",">>, TRUE, TRUE, "$var", "move")
Rest_mut_as      == Rule(<<"mut", "$var", "as", "$v", ",">>, TRUE, TRUE, "$v", "move")
Rest_ref         == Rule(<<"&", "$var", ",">>, TRUE, FALSE, "$var", "ref")
Rest_ref_as      == Rule(<<"&", "$var", "as", "$v", ",">>, TRUE, FALSE, "$v", "ref")
Rest_refmut      == Rule(<<"&", "mut", "$var", ",">>, TRUE, FALSE, "$var", "refmut")
Rest_refmut_as   == Rule(<<"&", "mut", "$var", "as", "$v", ",">>, TRUE, FALSE, "$v", "refmut")
Rest_clone       == Rule(<<"=", "$var", ",">>, TRUE, FALSE, "$var", "clone")
Rest_clone_as    == Rule(<<"=", "$var", "as", "$v", ",">>, TRUE, FALSE, "$v", "clone")
Rest_clonemut    == Rule(<<"=", "mut", "$var", ",">>, TRUE, TRUE, "$var", "clone")
Rest_clonemut_as == Rule(<<"=", "mut", "$var", "as", "$v", ",">>, TRUE, TRUE, "$v", "clone")

Last_move        == Rule(<<"$var">>, FALSE, FALSE, "$var", "move")
\* A slip: `let $v = $var.clone();` under `$var as $v`.
Last_move_as_slip == Rule(<<"$var", "as", "$v">>, FALSE, FALSE, "$v", "clone")
Last_move_as     == Rule(<<"$var", "as", "$v">>, FALSE, FALSE, "$v", "move")
Last_mut         == Rule(<<"mut", "$var">>, FALSE, TRUE, "$var", "move")
Last_mut_as      == Rule(<<"mut", "$var", "as", "$v">>, FALSE, TRUE, "$v", "move")
Last_ref         == Rule(<<"&", "$var">>, FALSE, FALSE, "$var", "ref")
Last_ref_as      == Rule(<<"&", "$var", "as", "$v">>, FALSE, FALSE, "$v", "ref")
\* A slip: `let $var = &$var;` under `&mut $var`.
Last_refmut_slip == Rule(<<"&", "mut", "$var">>, FALSE, FALSE, "$var", "ref")
Last_refmut      == Rule(<<"&", "mut", "$var">>, FALSE, FALSE, "$var", "refmut")
\* A slip: `let $v = &$var;` under `&mut $var as $v`.
Last_refmut_as_slip == Rule(<<"&", "mut", "$var", "as", "$v">>, FALSE, FALSE, "$v", "ref")
Last_refmut_as   == Rule(<<"&", "mut", "$var", "as", "$v">>, FALSE, FALSE, "$v", "refmut")
Last_clone       == Rule(<<"=", "$var">>, FALSE, FALSE, "$var", "clone")
\* A slip: `let $var = $var.clone();` under `=$var as $v`.
Last_clone_as_slip == Rule(<<"=", "$var", "as", "$v">>, FALSE, FALSE, "$var", "clone")
Last_clone_as    == Rule(<<"=", "$var", "as", "$v">>, FALSE, FALSE, "$v", "clone")
\* A slip: `let mut $var = $var;` under `=mut $var`.
Last_clonemut_slip == Rule(<<"=", "mut", "$var">>, FALSE, TRUE, "$var", "move")
Last_clonemut    == Rule(<<"=", "mut", "$var">>, FALSE, TRUE, "$var", "clone")
Last_clonemut_as == Rule(<<"=", "mut", "$var", "as", "$v">>, FALSE, TRUE, "$v", "clone")

\* A slip: `[,] => {};` for the trailing comma.
Empty_slip ==
    [pat |-> <<",">>, rest |-> FALSE, emits |-> FALSE, mutable |-> FALSE, dst |-> "$var", init |-> "move"]

\* `[] => {};`
Empty ==
    [pat |-> <<>>, rest |-> FALSE, emits |-> FALSE, mutable |-> FALSE, dst |-> "$var", init |-> "move"]

\* The rules in the order the macro lists them: the first that matches is used.
Rules ==
    <<Rest_move, Rest_move_as, Rest_mut, Rest_mut_as, Rest_ref, Rest_ref_as,
      Rest_refmut, Rest_refmut_as, Rest_clone, Rest_clone_as, Rest_clonemut, Rest_clonemut_as,
      Last_move, Last_move_as, Last_mut, Last_mut_as, Last_ref, Last_ref_as,
      Last_refmut, Last_refmut_as, Last_clone, Last_clone_as, Last_clonemut, Last_clonemut_as,
      Empty>>

\* The `ident` fragment takes any identifier token, the keywords included.
IsIdent(t) == t \in Names \cup Keywords

\* A slip: a rule without `$($rest:tt)*` that lets tokens follow its pattern.
Match_slip(r, ts) ==
    /\ Len(ts) >= Len(r.pat)
    /\ \A i \in 1..Len(r.pat) :
          IF r.pat[i] \in Fragments THEN IsIdent(ts[i]) ELSE ts[i] = r.pat[i]

\* Rule r matches ts: token by token, then `$($rest:tt)*` takes whatever
\* follows, and a rule without it must use up the input.
Match(r, ts) ==
    /\ IF r.rest THEN Len(ts) >= Len(r.pat) ELSE Len(ts) = Len(r.pat)
    /\ \A i \in 1..Len(r.pat) :
          IF r.pat[i] \in Fragments THEN IsIdent(ts[i]) ELSE ts[i] = r.pat[i]

Matching(ts) == {k \in 1..Len(Rules) : Match(Rules[k], ts)}

Selected(ts) == CHOOSE k \in Matching(ts) : \A j \in Matching(ts) : k <= j

\* The token fragment f of rule r is bound to.
Bound(r, ts, f) == ts[CHOOSE i \in 1..Len(r.pat) : r.pat[i] = f]

\* The declaration rule r emits on ts.
Transcribe(r, ts) ==
    [mut |-> r.mutable, dst |-> Bound(r, ts, r.dst), init |-> r.init, src |-> Bound(r, ts, "$var")]

\* A slip: the comma left in front of `$($rest)*`.
Remainder_slip(r, ts) == SubSeq(ts, Len(r.pat), Len(ts))

\* `$($rest)*`: the tokens after the pattern.
Remainder(r, ts) == SubSeq(ts, Len(r.pat) + 1, Len(ts))

\* The emitted tokens are parsed as a `let` statement: a keyword where the
\* pattern or the initializer needs a name is a syntax error.
DeclParses(d) == d.dst \in Names /\ d.src \in Names

\* The whole expansion of take!(ts) as a function of its tokens: whether it
\* succeeds, and the declarations it emits up to the end or the failure.
RECURSIVE Expansion(_)
Expansion(ts) ==
    IF Matching(ts) = {}
      THEN [ok |-> FALSE, decls |-> <<>>]
      ELSE LET r == Rules[Selected(ts)] IN
           IF ~r.emits
             THEN [ok |-> TRUE, decls |-> <<>>]
             ELSE LET d == Transcribe(r, ts) IN
                  IF ~DeclParses(d)
                    THEN [ok |-> FALSE, decls |-> <<d>>]
                    ELSE IF r.rest
                           THEN LET e == Expansion(Remainder(r, ts))
                                IN  [ok |-> e.ok, decls |-> <<d>> \o e.decls]
                           ELSE [ok |-> TRUE, decls |-> <<d>>]

(***************************************************************************)
(* The invocations tried.                                                  *)
(***************************************************************************)
Sigils == {<<>>, <<"mut">>, <<"&">>, <<"&", "mut">>, <<"=">>, <<"=", "mut">>}

\* The items of the doc comment: `x`, `mut x`, `&x`, `&mut x`, `=x`, `=mut x`,
\* each with or without `as y`.
Items ==
    {s \o <<n>> : s \in Sigils, n \in Names}
      \cup {s \o <<n, "as", m>> : s \in Sigils, n \in Names, m \in Names}

\* MaxItems items at most fit in MaxListTokens tokens.
MaxItems == (MaxListTokens + 1) \div 2

\* The lists of n items, comma-separated.
ItemLists[n \in 1..MaxItems] ==
    IF n = 1
      THEN {i \in Items : Len(i) <= MaxListTokens}
      ELSE {l \o <<",">> \o i : l \in {k \in ItemLists[n - 1] : Len(k) + 2 <= MaxListTokens},
                                i \in {j \in Items : Len(j) <= MaxListTokens - 2 * (n - 1)}}

\* The lists, with and without a trailing comma.
Lists ==
    LET all == UNION {ItemLists[n] : n \in 1..MaxItems}
    IN  {l \in all \cup {k \o <<",">> : k \in all} : Len(l) <= MaxListTokens}

Inputs == UNION {[1..n -> Tokens] : n \in 0..MaxTokens} \cup Lists

(***************************************************************************)
(* The scope.  The outer variables are declared `let mut` and hold values  *)
(* that are not Copy but are Clone; a binding holds a value ("val") or a   *)
(* reference to an earlier binding ("ref" for &, "refmut" for &mut).       *)
(* A shared reference is Copy, a &mut reference is not.  A binding is      *)
(* marked `moved` once its value was moved out, and a reference `dead`     *)
(* once a conflicting use of what it borrows ended the borrow: the         *)
(* compiler rejects any later use of either.  The rejection is recorded    *)
(* when the offending declaration is reached (status "rejected"); the      *)
(* body writes only where the compiler accepts the write.                  *)
(***************************************************************************)
Outer == <<"x", "y">>
InitVal == <<1, 2>>
WriteVals == {3, 4}

Binding(n, m, k, v, t, md, f) ==
    [name |-> n, mut |-> m, kind |-> k, val |-> v, to |-> t,
     moved |-> FALSE, dead |-> FALSE, mode |-> md, from |-> f]

OuterBinds == [i \in 1..Len(Outer) |-> Binding(Outer[i], TRUE, "val", InitVal[i], 0, "outer", 0)]
OuterEnv == [n \in Names |-> CHOOSE i \in 1..Len(Outer) : Outer[i] = n]

\* The binding whose value k denotes: k itself, or what its reference leads to.
RECURSIVE Target(_, _)
Target(bs, k) == IF bs[k].kind = "val" THEN k ELSE Target(bs, bs[k].to)

Val(bs, k) == bs[Target(bs, k)].val

\* k may be named: neither k nor anything its references lead through was
\* moved out of, and no reference on the way was invalidated.
RECURSIVE Live(_, _)
Live(bs, k) ==
    /\ ~bs[k].moved
    /\ ~bs[k].dead
    /\ IF bs[k].kind = "val" THEN TRUE ELSE Live(bs, bs[k].to)

\* Every reference from k on is a &mut.
RECURSIVE AllRefMut(_, _)
AllRefMut(bs, k) ==
    IF bs[k].kind = "val" THEN TRUE
    ELSE IF bs[k].kind = "refmut" THEN AllRefMut(bs, bs[k].to) ELSE FALSE

\* `k = v` needs a `let mut`; `*k = v` needs &mut references all the way.
CanWrite(bs, k) ==
    /\ Live(bs, k)
    /\ IF bs[k].kind = "val" THEN bs[k].mut ELSE AllRefMut(bs, k)

\* Naming s ends the borrows of s it conflicts with: all of them when s is
\* moved, written or borrowed mutably, the &mut ones when s is only read.
Touch(bs, s, exclusive) ==
    [p \in 1..Len(bs) |->
        IF bs[p].to = s /\ bs[p].kind # "val" /\ (IF exclusive THEN TRUE ELSE bs[p].kind = "refmut")
          THEN [bs[p] EXCEPT !.dead = TRUE]
          ELSE bs[p]]

\* The compiler accepts declaration d when s, the binding d.src resolves to,
\* may be named, and `&mut s` only when s was declared `let mut`.
Accepts(bs, s, d) ==
    /\ Live(bs, s)
    /\ (d.init = "refmut" => bs[s].mut)

\* `let [mut] dst = src;` moves the value, or copies a shared reference.
LetMove(bs, s, d) ==
    IF bs[s].kind = "ref"
      THEN Append(Touch(bs, s, FALSE),
                  Binding(d.dst, d.mut, "ref", 0, bs[s].to, d.init, s))
      ELSE Append([Touch(bs, s, TRUE) EXCEPT ![s].moved = TRUE],
                  Binding(d.dst, d.mut, bs[s].kind, bs[s].val, bs[s].to, d.init, s))

\* `let dst = &src;`
LetRef(bs, s, d) ==
    Append(Touch(bs, s, FALSE), Binding(d.dst, d.mut, "ref", 0, s, d.init, s))

\* `let dst = &mut src;`
LetRefMut(bs, s, d) ==
    Append(Touch(bs, s, TRUE), Binding(d.dst, d.mut, "refmut", 0, s, d.init, s))

\* `let [mut] dst = src.clone();` clones the value src denotes.
LetClone(bs, s, d) ==
    Append(Touch(bs, s, FALSE), Binding(d.dst, d.mut, "val", Val(bs, s), 0, d.init, s))

RunDecl(bs, s, d) ==
    CASE d.init = "move"   -> LetMove(bs, s, d)
      [] d.init = "ref"    -> LetRef(bs, s, d)
      [] d.init = "refmut" -> LetRefMut(bs, s, d)
      [] d.init = "clone"  -> LetClone(bs, s, d)

NoWrite == [via |-> 0, val |-> 0]

Init ==
    /\ input \in Inputs
    /\ toks = input
    /\ out = <<>>
    /\ status = "expanding"
    /\ calls = 1
    /\ binds = OuterBinds
    /\ env = OuterEnv
    /\ ip = 0
    /\ nwrites = 0
    /\ lastw = NoWrite

\* One invocation of take! in which rule r is the first rule that matches.
Expand(r) ==
    /\ Match(r, toks)
    /\ Rules[Selected(toks)] = r
    /\ IF r.emits
         THEN LET d == Transcribe(r, toks) IN
              /\ out' = Append(out, d)
              /\ IF ~DeclParses(d)
                   THEN status' = "syntax_error" /\ toks' = toks /\ calls' = calls
                   ELSE IF r.rest
                          THEN /\ status' = "expanding"
                               /\ toks' = Remainder(r, toks)
                               /\ calls' = calls + 1
                          ELSE /\ status' = "expanded"
                               /\ toks' = <<>>
                               /\ calls' = calls
         ELSE /\ out' = out
              /\ status' = "expanded"
              /\ toks' = toks
              /\ calls' = calls
    /\ UNCHANGED <<input, binds, env, ip, nwrites, lastw>>

\* No rule matches the tokens: "no rules expected the token".
NoRule ==
    /\ status = "expanding"
    /\ Matching(toks) = {}
    /\ status' = "no_rule"
    /\ UNCHANGED <<input, toks, out, calls, binds, env, ip, nwrites, lastw>>

\* The next emitted declaration runs in the scope, unless the compiler rejects
\* it (a moved or invalidated source, `&mut` of a binding that is not `mut`).
Let ==
    /\ status = "expanded"
    /\ ip < Len(out)
    /\ LET d == out[ip + 1]
           s == env[d.src]
       IN  IF Accepts(binds, s, d)
             THEN /\ binds' = RunDecl(binds, s, d)
                  /\ env' = [env EXCEPT ![d.dst] = Len(binds) + 1]
                  /\ ip' = ip + 1
                  /\ status' = status
             ELSE /\ status' = "rejected"
                  /\ UNCHANGED <<binds, env, ip>>
    /\ UNCHANGED <<input, toks, out, calls, nwrites, lastw>>

\* The body writes v through a binding the expansion made: `k = v`, `*k = v`.
Write ==
    /\ status = "expanded"
    /\ ip = Len(out)
    /\ nwrites < MaxWrites
    /\ \E n \in Names, v \in WriteVals :
          LET k == env[n] IN
          /\ k > Len(Outer)
          /\ CanWrite(binds, k)
          /\ binds' = [Touch(binds, k, TRUE) EXCEPT ![Target(binds, k)].val = v]
          /\ lastw' = [via |-> k, val |-> v]
    /\ nwrites' = nwrites + 1
    /\ UNCHANGED <<input, toks, out, status, calls, env, ip>>

\* The scope ends: the new bindings are gone, the outer variables remain.
EndScope ==
    /\ status = "expanded"
    /\ ip = Len(out)
    /\ status' = "ended"
    /\ UNCHANGED <<input, toks, out, calls, binds, env, ip, nwrites, lastw>>

\* One action per rule of the macro, taken while an invocation is pending.
Take_Rest_move == status = "expanding" /\ Expand(Rest_move)
Take_Rest_move_as == status = "expanding" /\ Expand(Rest_move_as)
Take_Rest_mut == status = "expanding" /\ Expand(Rest_mut)
Take_Rest_mut_as == status = "expanding" /\ Expand(Rest_mut_as)
Take_Rest_ref == status = "expanding" /\ Expand(Rest_ref)
Take_Rest_ref_as == status = "expanding" /\ Expand(Rest_ref_as)
Take_Rest_refmut == status = "expanding" /\ Expand(Rest_refmut)
Take_Rest_refmut_as == status = "expanding" /\ Expand(Rest_refmut_as)
Take_Rest_clone == status = "expanding" /\ Expand(Rest_clone)
Take_Rest_clone_as == status = "expanding" /\ Expand(Rest_clone_as)
Take_Rest_clonemut == status = "expanding" /\ Expand(Rest_clonemut)
Take_Rest_clonemut_as == status = "expanding" /\ Expand(Rest_clonemut_as)
Take_Last_move == status = "expanding" /\ Expand(Last_move)
Take_Last_move_as == status = "expanding" /\ Expand(Last_move_as)
Take_Last_mut == status = "expanding" /\ Expand(Last_mut)
Take_Last_mut_as == status = "expanding" /\ Expand(Last_mut_as)
Take_Last_ref == status = "expanding" /\ Expand(Last_ref)
Take_Last_ref_as == status = "expanding" /\ Expand(Last_ref_as)
Take_Last_refmut == status = "expanding" /\ Expand(Last_refmut)
Take_Last_refmut_as == status = "expanding" /\ Expand(Last_refmut_as)
Take_Last_clone == status = "expanding" /\ Expand(Last_clone)
Take_Last_clone_as == status = "expanding" /\ Expand(Last_clone_as)
Take_Last_clonemut == status = "expanding" /\ Expand(Last_clonemut)
Take_Last_clonemut_as == status = "expanding" /\ Expand(Last_clonemut_as)
Take_Empty == status = "expanding" /\ Expand(Empty)

Next ==
    \/ Take_Rest_move
    \/ Take_Rest_move_as
    \/ Take_Rest_mut
    \/ Take_Rest_mut_as
    \/ Take_Rest_ref
    \/ Take_Rest_ref_as
    \/ Take_Rest_refmut
    \/ Take_Rest_refmut_as
    \/ Take_Rest_clone
    \/ Take_Rest_clone_as
    \/ Take_Rest_clonemut
    \/ Take_Rest_clonemut_as
    \/ Take_Last_move
    \/ Take_Last_move_as
    \/ Take_Last_mut
    \/ Take_Last_mut_as
    \/ Take_Last_ref
    \/ Take_Last_ref_as
    \/ Take_Last_refmut
    \/ Take_Last_refmut_as
    \/ Take_Last_clone
    \/ Take_Last_clone_as
    \/ Take_Last_clonemut
    \/ Take_Last_clonemut_as
    \/ Take_Empty
    \/ NoRule
    \/ Let
    \/ Write
    \/ EndScope

Spec == Init /\ [][Next]_vars

(***************************************************************************)
(* Properties.  The items of an invocation are read off its tokens here    *)
(* without the rules: the segments between commas, a sigil, a name, an     *)
(* optional `as` clause.                                                   *)
(***************************************************************************)
NOuter == Len(Outer)

\* Expansion is over and every emitted declaration parsed.
Expanded == status \in {"expanded", "rejected", "ended"}

FirstComma(ts) ==
    IF \E i \in 1..Len(ts) : ts[i] = ","
      THEN CHOOSE i \in 1..Len(ts) : ts[i] = "," /\ \A j \in 1..(i - 1) : ts[j] # ","
      ELSE 0

RECURSIVE Segments(_)
Segments(ts) ==
    LET c == FirstComma(ts) IN
    IF c = 0 THEN <<ts>>
    ELSE <<SubSeq(ts, 1, c - 1)>> \o Segments(SubSeq(ts, c + 1, Len(ts)))

\* The segments of ts, without the empty one a trailing comma leaves.
ItemsOf(ts) ==
    LET sg == Segments(ts) IN
    IF ts = <<>> THEN <<>>
    ELSE IF sg[Len(sg)] = <<>> THEN SubSeq(sg, 1, Len(sg) - 1) ELSE sg

\* Zero or more well-formed items, comma-separated, then at most one comma.
WellFormed(ts) == \A k \in 1..Len(ItemsOf(ts)) : ItemsOf(ts)[k] \in Items

\* One or more well-formed items, comma-separated, no trailing comma.
PlainList(ts) == ts # <<>> /\ \A k \in 1..Len(Segments(ts)) : Segments(ts)[k] \in Items

HasAs(it) == Len(it) >= 3 /\ it[Len(it) - 1] = "as"
Core(it) == IF HasAs(it) THEN SubSeq(it, 1, Len(it) - 2) ELSE it
SrcOf(it) == Core(it)[Len(Core(it))]
DstOf(it) == it[Len(it)]

Decl(m, d, i, s) == [mut |-> m, dst |-> d, init |-> i, src |-> s]

\* The table of the six modes, for an item c without `as`.
Table(c) ==
    LET n == c[Len(c)]
        sigil == SubSeq(c, 1, Len(c) - 1)
    IN  CASE sigil = <<>>           -> Decl(FALSE, n, "move", n)
          [] sigil = <<"mut">>      -> Decl(TRUE, n, "move", n)
          [] sigil = <<"&">>        -> Decl(FALSE, n, "ref", n)
          [] sigil = <<"&", "mut">> -> Decl(FALSE, n, "refmut", n)
          [] sigil = <<"=">>        -> Decl(FALSE, n, "clone", n)
          [] sigil = <<"=", "mut">> -> Decl(TRUE, n, "clone", n)

\* The mode of the k-th item of the invocation.
ModeOf(k) == Table(Core(ItemsOf(input)[k])).init

\* The binding the k-th declaration made.
Made(k) == binds[NOuter + k]

\* C1: a single item without `as` emits exactly one declaration, the one the
\* table of the six modes gives for it: `x` gives `let x = x;`, `mut x` gives
\* `let mut x = x;`, `&x` gives `let x = &x;`, `&mut x` gives
\* `let x = &mut x;`, `=x` gives `let x = x.clone();`, `=mut x` gives
\* `let mut x = x.clone();`, and nothing else is emitted.
C1_SingleItem ==
    (input \in Items /\ ~HasAs(input)) =>
        IF status = "expanding"
          THEN out = <<>>
          ELSE Expanded /\ out = <<Table(input)>>

C1_Witness ==
    /\ status = "expanded"
    /\ input = <<"&", "mut", "x">>
    /\ out = <<Decl(FALSE, "x", "refmut", "x")>>

\* C2: an item `<mode> src as dst` emits the declaration of `<mode> src` with
\* the new binding named dst and the initializer still reading src; when dst
\* is another name than src, src is not rebound, and for the reference and
\* clone modes it still is the original binding with its original value
\* after the declaration.
C2_Rename ==
    (input \in Items /\ HasAs(input)) =>
        LET src == SrcOf(input)
            dst == DstOf(input)
            mode == Table(Core(input)).init
        IN  /\ status = "expanding" => out = <<>>
            /\ status # "expanding" =>
                  /\ Expanded
                  /\ out = <<[Table(Core(input)) EXCEPT !.dst = dst]>>
                  /\ out[1].src = src
            /\ ip = 1 =>
                  /\ env[dst] = NOuter + 1
                  /\ dst # src => env[src] = OuterEnv[src]
                  /\ (dst # src /\ mode # "move" /\ (mode # "refmut" \/ nwrites = 0)) =>
                        binds[env[src]] = OuterBinds[OuterEnv[src]]

C2_Witness ==
    /\ status = "ended"
    /\ input = <<"=", "mut", "x", "as", "y">>
    /\ env["x"] = 1
    /\ env["y"] = 3
    /\ binds[3].val # binds[1].val

\* C3: a list of n well-formed items emits exactly n declarations, in the
\* order of the items, the k-th being what the single-item invocation of
\* item k emits; so an item that names a variable an earlier item of the list
\* bound reads that item's new binding.
Resolves(its, k) ==
    LET src == SrcOf(its[k])
        earlier == {j \in 1..(k - 1) : DstOf(its[j]) = src}
    IN  IF earlier = {}
          THEN OuterEnv[src]
          ELSE NOuter + (CHOOSE j \in earlier : \A i \in earlier : i <= j)

C3_List ==
    WellFormed(input) =>
        LET its == ItemsOf(input) IN
        /\ Len(out) <= Len(its)
        /\ \A k \in 1..Len(out) : Expansion(its[k]) = [ok |-> TRUE, decls |-> <<out[k]>>]
        /\ status # "expanding" => (Expanded /\ Len(out) = Len(its))
        /\ \A k \in 1..ip : Made(k).from = Resolves(its, k)

C3_Witness ==
    /\ status = "expanded"
    /\ input = <<"mut", "x", ",", "&", "x", ",", "y">>
    /\ ip = 3
    /\ Made(1).from = 1
    /\ Made(2).from = NOuter + 1
    /\ Made(3).from = 2

\* C4: a trailing comma changes nothing: take!(items,) emits the sequence of
\* declarations take!(items) emits, for every list of one or more items.
C4_TrailingComma ==
    (Len(input) >= 2 /\ input[Len(input)] = "," /\ PlainList(SubSeq(input, 1, Len(input) - 1))) =>
        (status # "expanding" =>
            /\ Expanded
            /\ Expansion(SubSeq(input, 1, Len(input) - 1)) = [ok |-> TRUE, decls |-> out])

C4_Witness ==
    /\ status = "expanded"
    /\ input = <<"x", ",", "=", "y", ",">>
    /\ Len(out) = 2

\* C5 as stated: after the scope, an outer variable an item took by a move
\* mode is unusable, and an outer variable an item took by `&`, `&mut` or `=`
\* is usable.
C5_Stated ==
    (status = "ended" /\ WellFormed(input)) =>
        \A k \in 1..ip :
            Made(k).from <= NOuter =>
                IF ModeOf(k) = "move"
                  THEN binds[Made(k).from].moved
                  ELSE ~binds[Made(k).from].moved

\* C5: after the scope, an outer variable is unusable exactly when an item of
\* the list took it by a move mode (`x`, `mut x`, with or without `as`); so
\* one taken by a move mode is unusable, and one taken only by `&`, `&mut`
\* or `=` stays usable.
C5_Moves ==
    (status = "ended" /\ WellFormed(input)) =>
        \A o \in 1..NOuter :
            binds[o].moved <=> \E k \in 1..ip : ModeOf(k) = "move" /\ Made(k).from = o

C5_Witness ==
    /\ status = "ended"
    /\ input = <<"&", "mut", "x", ",", "mut", "y">>
    /\ ~binds[1].moved
    /\ binds[2].moved

\* C6: a clone-mode binding is an independent copy: it starts with the value
\* the source has, a write through it changes no other binding, and a take!
\* of clone items only leaves the outer variables as they were.
C6_CloneStarts ==
    (Expanded /\ WellFormed(input)) =>
        \A k \in 1..ip :
            ModeOf(k) = "clone" =>
                /\ Made(k).kind = "val"
                /\ nwrites = 0 => Made(k).val = Val(binds, Made(k).from)

C6_CloneKeeps ==
    (status = "ended" /\ WellFormed(input) /\ \A k \in 1..ip : ModeOf(k) = "clone") =>
        \A o \in 1..NOuter : binds[o] = OuterBinds[o]

C6_CloneWrite ==
    (nwrites' = nwrites + 1 /\ WellFormed(input) /\ ModeOf(lastw'.via - NOuter) = "clone") =>
        \A j \in 1..Len(binds) :
            j # lastw'.via => (binds'[j].val = binds[j].val /\ binds'[j].moved = binds[j].moved)

\* C6: the three parts above, in every state and at every step.
C6_Clone == []C6_CloneStarts /\ []C6_CloneKeeps /\ [][C6_CloneWrite]_vars

C6_Witness ==
    /\ status = "ended"
    /\ input = <<"=", "mut", "x">>
    /\ lastw = [via |-> 3, val |-> 4]
    /\ binds[3].val = 4
    /\ binds[1].val = 1

\* C7: a `&mut` binding is an alias of its source: a write through it is a
\* write to the source, which holds the value last written through it, also
\* once the scope has ended; a `&` binding reads the value of its source and
\* nothing is ever written through it.
C7_Alias ==
    (Expanded /\ WellFormed(input)) =>
        \A k \in 1..ip :
            /\ ModeOf(k) = "refmut" =>
                  /\ Made(k).kind = "refmut"
                  /\ Made(k).to = Made(k).from
                  /\ lastw.via = NOuter + k => Val(binds, Made(k).from) = lastw.val
            /\ ModeOf(k) = "ref" =>
                  /\ Made(k).kind = "ref"
                  /\ Val(binds, NOuter + k) = Val(binds, Made(k).from)
                  /\ lastw.via # NOuter + k
                  /\ ~CanWrite(binds, NOuter + k)

C7_Witness ==
    /\ status = "ended"
    /\ input = <<"&", "mut", "x", "as", "y">>
    /\ nwrites = 2
    /\ lastw = [via |-> 3, val |-> 4]
    /\ binds[1].val = 4

C9_Step ==
    status = "expanding" =>
        \/ /\ status' = "expanding"
           /\ calls' = calls + 1
           /\ Len(toks') < Len(toks)
           /\ \E n \in 1..Len(toks) :
                 /\ toks = SubSeq(toks, 1, n) \o <<",">> \o toks'
                 /\ \A i \in 1..n : toks[i] # ","
        \/ /\ status' # "expanding"
           /\ calls' = calls
           /\ status' = "expanded" => ~Rules[Selected(toks)].rest

C9_Bound ==
    /\ status = "expanding" => ENABLED Next
    /\ calls <= Len(input) + 1
    /\ WellFormed(input) => calls <= Len(ItemsOf(input)) + 1

\* C9: the bound in every state, the step condition at every step.
C9_Terminates == []C9_Bound /\ [][C9_Step]_vars

C9_Witness ==
    /\ status = "expanded"
    /\ input = <<"x", ",", "y", ",">>
    /\ calls = 3
====
